---------------------------- MODULE Spec2Model ----------------------------
(***************************************************************************)
(* training_function of fsdp_finetune.py: sparsity-preserving fine-tuning. *)
(* Gradient-mask hooks are registered on the pruned weights, the model is  *)
(* trained with AdamW (optionally accumulating gradients and saving step   *)
(* checkpoints), the hooks are removed and the model is saved.             *)
(*                                                                         *)
(* Tensors are flattened to sequences of floats.  A float is a record:     *)
(* a finite value (an integer, in units of 0.5), an infinity or NaN, with  *)
(* the IEEE-754 rules for products and sums of non-finite values.          *)
(***************************************************************************)
EXTENDS Integers, Sequences, FiniteSets, TLC

\* ------------------------------------------------------------------ bounds
MaxEpochs == 2      \* config["num_epochs"] ranges over 1..MaxEpochs
LoaderLen == 2      \* len(train_dataloader): batches per epoch
WMax      == 6      \* finite values saturate at +-WMax

MAX_GPU_BATCH_SIZE == 1

\* ------------------------------------------------------------------ floats
Fin(n)  == [k |-> "fin", v |-> n]
Inf(s)  == [k |-> "inf", v |-> s]
NaN     == [k |-> "nan", v |-> 0]
Zero    == Fin(0)
One     == Fin(1)

IsFinite(a) == a.k = "fin"
Sgn(n) == IF n > 0 THEN 1 ELSE IF n < 0 THEN -1 ELSE 0
Abs(n) == IF n < 0 THEN -n ELSE n
Sat(n) == IF n > WMax THEN WMax ELSE IF n < -WMax THEN -WMax ELSE n

FNeg(a) == IF a.k = "nan" THEN NaN ELSE [k |-> a.k, v |-> -a.v]

\* a * b
FMul(a, b) ==
    IF a.k = "nan" \/ b.k = "nan" THEN NaN
    ELSE IF a.k = "inf" \/ b.k = "inf"
         THEN IF a.v = 0 \/ b.v = 0 THEN NaN ELSE Inf(Sgn(a.v) * Sgn(b.v))
         ELSE Fin(Sat(a.v * b.v))

\* a + b
FAdd(a, b) ==
    IF a.k = "nan" \/ b.k = "nan" THEN NaN
    ELSE IF a.k = "inf" /\ b.k = "inf" THEN (IF a.v = b.v THEN a ELSE NaN)
    ELSE IF a.k = "inf" THEN a
    ELSE IF b.k = "inf" THEN b
    ELSE Fin(Sat(a.v + b.v))

FSub(a, b) == FAdd(a, FNeg(b))

\* ----------------------------------------------------------------- tensors
Zeros(n)      == [i \in 1..n |-> Zero]
TMul(s, t)    == [i \in 1..Len(s) |-> FMul(s[i], t[i])]
TAdd(s, t)    == [i \in 1..Len(s) |-> FAdd(s[i], t[i])]
\* mutant: the inverted comparison, param == 0
EqualZero(t) == [i \in 1..Len(t) |-> t[i] = Zero]
\* param != 0 : a boolean tensor of the shape of param
NotEqualZero(t) == [i \in 1..Len(t) |-> t[i] # Zero]
\* mask.float()
ToFloat(m)    == [i \in 1..Len(m) |-> IF m[i] THEN One ELSE Zero]
AllFinite(t)  == \A i \in 1..Len(t) : IsFinite(t[i])


\* ------------------------------------------------------------------- model
\* model.named_parameters(): the dotted names, in iteration order
ParamNames ==
    << <<"decoder", "layers", "0", "fc1", "weight">>,
       <<"decoder", "layers", "0", "fc1", "bias">>,
       <<"decoder", "embed_tokens", "weight">>,
       <<"decoder", "final_layer_norm", "bias">>,
       <<"decoder", "layers", "0", "fc2", "weight">> >>

NParams == Len(ParamNames)
Params  == 1..NParams

\* 'weight' in name
Contains(name, part) == \E i \in 1..Len(name) : name[i] = part

\* utils.prehook_utils.check_whitelist: an allow-list of name parts
Whitelist == {"fc1", "fc2"}
check_whitelist(name) == \E i \in 1..Len(name) : name[i] \in Whitelist

FT(s) == [i \in 1..Len(s) |-> Fin(s[i])]

\* The pruned checkpoints the run may be given (config['model'], or the file
\* pruned_models/<name>-<sparsity>.pt), values in units of 0.5.
Fc1Weights == { <<0, 5, 0, -2>>, <<0, 0, 0, 0>>, <<1, 0, -1, 1>> }
PrunedModels ==
    { [j \in Params |->
         CASE j = 1 -> FT(w)
           [] j = 2 -> FT(<<1, -1>>)
           [] j = 3 -> FT(<<0, 3>>)
           [] j = 4 -> FT(<<0, 1>>)
           [] OTHER -> FT(<<2, 0, 0, -1>>)] : w \in Fc1Weights }

\* ------------------------------------------------------------ command line
None      == [kind |-> "none", chars |-> <<>>]
Str(s)    == [kind |-> "str", chars |-> s]
EpochStr  == <<"e", "p", "o", "c", "h">>
Digits    == <<"0", "1", "2", "3", "4", "5", "6", "7", "8", "9">>

\* str.isdigit()
isdigit(s) == Len(s) > 0 /\ \A i \in 1..Len(s) : \E d \in 1..Len(Digits) : Digits[d] = s[i]

DigitVal(c) == (CHOOSE d \in 1..Len(Digits) : Digits[d] = c) - 1

\* int(s) of a digit string
RECURSIVE int(_)
int(s) == IF s = <<>> THEN 0
          ELSE int(SubSeq(s, 1, Len(s) - 1)) * Len(Digits) + DigitVal(s[Len(s)])

\* values of --checkpointing_steps
CheckpointingArgs ==
    { None, Str(EpochStr), Str(<<"1">>), Str(<<"2">>), Str(<<"0">>),
      Str(<<"x", "2">>), Str(<<>>) }

\* values of --resume_from_checkpoint: absent, <dir>/step_<n>, <dir>/epoch_<n>,
\* or a folder named otherwise
ResumeArgs ==
    { [kind |-> "none", n |-> 0], [kind |-> "step", n |-> 1], [kind |-> "step", n |-> 3],
      [kind |-> "epoch", n |-> 1], [kind |-> "other", n |-> 0] }

Configs ==
    [ num_epochs : 1..MaxEpochs,
      batch_size : {1, 2},
      max_step   : {1, LoaderLen},
      model      : PrunedModels ]

\* raw gradients produced by backpropagation: c at odd positions, -c at even ones
GradVals == { Fin(1), Fin(-1), Inf(1) }
RawGrad(c, n) == [i \in 1..n |-> IF i % 2 = 1 THEN c ELSE FNeg(c)]

\* ------------------------------------------------------------------- state
VARIABLES
    args,                   \* parsed command line
    config,                 \* the config dictionary
    mixed_precision,        \* the accelerator's precision mode ("no" or "fp16")
    pc,                     \* position in training_function
    exc,                    \* the exception that left training_function, or "none"
    checkpointing_steps,    \* local: None, "epoch" or an int
    num_epochs,             \* local
    gradient_accumulation_steps,
    pidx,                   \* position of the hook-installation loop
    param,                  \* model weights: parameter -> tensor
    grad,                   \* parameter -> accumulated .grad
    hooks,                  \* parameter -> gradient hooks (each the mask it captured)
    back_hooks,             \* handles kept by training_function
    exp_avg,                \* AdamW first moment
    epoch, step, overall_step,
    resume_step,            \* <<>> is None, <<n>> an int
    hook_in, hook_out,      \* the gradients of the backward pass under way: what each
                            \* parameter's hooks were handed and what they returned
    saves,                  \* the state folders written by accelerator.save_state
    saved                   \* the model file written by torch.save, <<>> when none

vars == << args, config, mixed_precision, pc, exc, checkpointing_steps, num_epochs,
           gradient_accumulation_steps, pidx, param, grad, hooks, back_hooks, exp_avg,
           epoch, step, overall_step, resume_step, hook_in, hook_out, saves, saved >>

model_vars == << param, grad, hooks, exp_avg >>
loop_vars  == << epoch, step, overall_step >>
input_vars == << args, config, mixed_precision >>
trace_vars == << hook_in, hook_out >>

Init ==
    /\ args \in [checkpointing_steps : CheckpointingArgs, resume_from_checkpoint : ResumeArgs]
    /\ config \in Configs
    /\ mixed_precision \in {"no", "fp16"}
    /\ pc = "validate"
    /\ exc = "none"
    /\ checkpointing_steps = [kind |-> "none", n |-> 0]
    /\ num_epochs = 0
    /\ gradient_accumulation_steps = 1
    /\ pidx = 1
    /\ param = [j \in Params |-> <<>>]
    /\ grad = [j \in Params |-> <<>>]
    /\ hooks = [j \in Params |-> <<>>]
    /\ back_hooks = {}
    /\ exp_avg = [j \in Params |-> <<>>]
    /\ epoch = 0 /\ step = 0 /\ overall_step = 0
    /\ resume_step = <<>>
    /\ hook_in = [j \in Params |-> <<>>]
    /\ hook_out = [j \in Params |-> <<>>]
    /\ saves = {}
    /\ saved = <<>>

Raise(e) == pc' = "raised" /\ exc' = e

\* mutant: a string that is neither "epoch" nor a number is taken as None
ValidateLenient ==
    /\ pc = "validate"
    /\ LET a == args.checkpointing_steps IN
       checkpointing_steps' =
          IF a.kind = "str" /\ a.chars = EpochStr THEN [kind |-> "epoch", n |-> 0]
          ELSE IF a.kind = "str" /\ isdigit(a.chars) THEN [kind |-> "int", n |-> int(a.chars)]
          ELSE [kind |-> "none", n |-> 0]
    /\ pc' = "setup"
    /\ UNCHANGED << input_vars, exc, num_epochs, gradient_accumulation_steps, pidx,
                    model_vars, back_hooks, loop_vars, resume_step, trace_vars, saves,
                    saved >>

\* lines 98-108
Validate ==
    /\ pc = "validate"
    /\ LET a == args.checkpointing_steps IN
       IF a.kind = "str"
       THEN IF a.chars = EpochStr
            THEN /\ checkpointing_steps' = [kind |-> "epoch", n |-> 0]
                 /\ pc' = "setup" /\ exc' = exc
            ELSE IF isdigit(a.chars)
            THEN /\ checkpointing_steps' = [kind |-> "int", n |-> int(a.chars)]
                 /\ pc' = "setup" /\ exc' = exc
            ELSE /\ Raise("ValueError")
                 /\ UNCHANGED checkpointing_steps
       ELSE /\ checkpointing_steps' = [kind |-> "none", n |-> 0]
            /\ pc' = "setup" /\ exc' = exc
    /\ UNCHANGED << input_vars, num_epochs, gradient_accumulation_steps, pidx, model_vars,
                    back_hooks, loop_vars, resume_step, trace_vars, saves, saved >>

\* lines 110-170: hyper-parameters, gradient accumulation, the pruned model
Setup ==
    /\ pc = "setup"
    /\ num_epochs' = config.num_epochs
    /\ gradient_accumulation_steps' =
          IF config.batch_size > MAX_GPU_BATCH_SIZE
          THEN config.batch_size \div MAX_GPU_BATCH_SIZE ELSE 1
    /\ param' = config.model
    /\ grad' = [j \in Params |-> Zeros(Len(config.model[j]))]
    /\ pidx' = 1
    /\ pc' = "install"
    /\ UNCHANGED << input_vars, exc, checkpointing_steps, hooks, back_hooks, exp_avg,
                    loop_vars, resume_step, trace_vars, saves, saved >>

\* the gradient hook of lines 178-179: grad * mask.float()
hook(g, mask) == TMul(g, ToFloat(mask))

\* mutant: hook(grad) reading the loop variable mask when called (late binding),
\* which by then is the mask of the last parameter that got a hook
LateBoundMask(j, k) ==
    LET last == CHOOSE m \in Params :
                    hooks[m] # <<>> /\ \A n \in Params : n > m => hooks[n] = <<>>
    IN  hooks[last][Len(hooks[last])]

\* The mask the k-th hook of parameter j is called with: the default argument
\* mask=mask of line 178, bound when the def statement ran.
BoundMask(j, k) == hooks[j][k]

\* autograd runs a tensor's hooks in registration order, each on the previous result
RECURSIVE RunHooks(_, _, _)
RunHooks(j, k, g) ==
    IF k > Len(hooks[j]) THEN g ELSE RunHooks(j, k + 1, hook(g, BoundMask(j, k)))

\* lines 174-180, one iteration of the loop over model.named_parameters()
InstallHook ==
    /\ pc = "install"
    /\ pidx <= NParams
    /\ hooks' = IF Contains(ParamNames[pidx], "weight") /\ check_whitelist(ParamNames[pidx])
                THEN [hooks EXCEPT ![pidx] = Append(@, NotEqualZero(param[pidx]))]
                ELSE hooks
    /\ pidx' = pidx + 1
    /\ UNCHANGED << input_vars, pc, exc, checkpointing_steps, num_epochs,
                    gradient_accumulation_steps, param, grad, back_hooks, exp_avg,
                    loop_vars, resume_step, trace_vars, saves, saved >>

\* lines 184-209: accelerator.prepare, AdamW, scheduler, overall_step = 0
Prepare ==
    /\ pc = "install"
    /\ pidx > NParams
    /\ exp_avg' = [j \in Params |-> Zeros(Len(param[j]))]
    /\ overall_step' = 0
    /\ pc' = "resume"
    /\ UNCHANGED << input_vars, exc, checkpointing_steps, num_epochs,
                    gradient_accumulation_steps, pidx, param, grad, hooks, back_hooks,
                    epoch, step, resume_step, trace_vars, saves, saved >>

\* p * (1 - lr * weight_decay): shrinks towards zero, keeps zero and non-finite values
Decay(p) == IF IsFinite(p) /\ Abs(p.v) >= 2 THEN Fin(p.v - Sgn(p.v)) ELSE p

\* accelerator.load_state: the weights of a state folder written by an earlier run
\* on the same pruned model (the pruned positions zero, the others moved)
load_state(w) == [j \in Params |-> [i \in 1..Len(w[j]) |-> Decay(w[j][i])]]

\* lines 212-232
Resume ==
    /\ pc = "resume"
    /\ LET r == args.resume_from_checkpoint IN
       IF r.kind = "none"
       THEN /\ pc' = "epoch"
            /\ UNCHANGED << exc, param, num_epochs, resume_step >>
       ELSE /\ param' = load_state(param)
            /\ IF r.kind = "epoch"
               THEN /\ num_epochs' = num_epochs - r.n
                    /\ resume_step' = <<>>
                    /\ pc' = "epoch" /\ exc' = exc
               ELSE IF r.kind = "step"
               THEN /\ num_epochs' = num_epochs - (r.n \div LoaderLen)
                    /\ resume_step' = << (num_epochs' * LoaderLen) - r.n >>
                    /\ pc' = "epoch" /\ exc' = exc
               ELSE /\ Raise("ValueError")
                    /\ UNCHANGED << num_epochs, resume_step >>
    /\ UNCHANGED << input_vars, checkpointing_steps, gradient_accumulation_steps, pidx,
                    grad, hooks, back_hooks, exp_avg, loop_vars, trace_vars, saves, saved >>

\* line 235: for epoch in range(num_epochs)
EpochHead ==
    /\ pc = "epoch"
    /\ IF epoch < num_epochs
       THEN step' = 0 /\ pc' = "batch"
       ELSE step' = step /\ pc' = "remove"
    /\ UNCHANGED << input_vars, exc, checkpointing_steps, num_epochs,
                    gradient_accumulation_steps, pidx, model_vars, back_hooks, epoch,
                    overall_step, resume_step, trace_vars, saves, saved >>

\* lines 242-248: next batch, the max_step break, the resume check (a pass statement)
BatchHead ==
    /\ pc = "batch"
    /\ IF step >= LoaderLen \/ step = config.max_step
       THEN epoch' = epoch + 1 /\ pc' = "epoch"
       ELSE epoch' = epoch /\ pc' = "forward"
    /\ UNCHANGED << input_vars, exc, checkpointing_steps, num_epochs,
                    gradient_accumulation_steps, pidx, model_vars, back_hooks, step,
                    overall_step, resume_step, trace_vars, saves, saved >>

\* lines 250-259: forward pass and accelerator.backward(loss); every parameter's
\* gradient passes through its hooks and is accumulated into .grad
ForwardBackward ==
    /\ pc = "forward"
    /\ \E c \in GradVals :
          /\ hook_in'  = [j \in Params |-> RawGrad(c, Len(param[j]))]
          /\ hook_out' = [j \in Params |-> RunHooks(j, 1, hook_in'[j])]
          /\ grad' = [j \in Params |-> TAdd(grad[j], hook_out'[j])]
    /\ pc' = "optimizer"
    /\ UNCHANGED << input_vars, exc, checkpointing_steps, num_epochs,
                    gradient_accumulation_steps, pidx, param, hooks, back_hooks, exp_avg,
                    loop_vars, resume_step, saves, saved >>

\* AdamW on one element: (first moment, weight) after the update
AdamStep(m) == IF IsFinite(m) THEN Fin(Sgn(m.v)) ELSE NaN
AdamW(p, m, g) ==
    LET m2 == FAdd(m, g) IN [exp_avg |-> m2, p |-> FSub(Decay(p), AdamStep(m2))]

\* with fp16 the gradient scaler skips the update when a gradient is not finite
StepSkipped == mixed_precision = "fp16" /\ \E j \in Params : ~AllFinite(grad[j])

\* lines 260-263
OptimizerStep ==
    /\ pc = "optimizer"
    /\ IF step % gradient_accumulation_steps = 0
       THEN /\ IF StepSkipped
               THEN UNCHANGED << param, exp_avg >>
               ELSE /\ param' = [j \in Params |-> [i \in 1..Len(param[j]) |->
                                    AdamW(param[j][i], exp_avg[j][i], grad[j][i]).p]]
                    /\ exp_avg' = [j \in Params |-> [i \in 1..Len(param[j]) |->
                                    AdamW(param[j][i], exp_avg[j][i], grad[j][i]).exp_avg]]
            /\ grad' = [j \in Params |-> Zeros(Len(param[j]))]
       ELSE UNCHANGED << param, exp_avg, grad >>
    /\ hook_in' = [j \in Params |-> <<>>]
    /\ hook_out' = [j \in Params |-> <<>>]
    /\ pc' = "checkpoint"
    /\ UNCHANGED << input_vars, exc, checkpointing_steps, num_epochs,
                    gradient_accumulation_steps, pidx, hooks, back_hooks, loop_vars,
                    resume_step, saves, saved >>

\* output_dir = f"step_{overall_step}"
StepFolder(n) == [kind |-> "step", n |-> n]

\* lines 266-273
StepCheckpoint ==
    /\ pc = "checkpoint"
    /\ overall_step' = overall_step + 1
    /\ IF checkpointing_steps.kind = "int"
       THEN IF checkpointing_steps.n = 0
            THEN /\ Raise("ZeroDivisionError")
                 /\ UNCHANGED << step, saves >>
            ELSE /\ saves' = IF overall_step' % checkpointing_steps.n = 0
                             THEN saves \cup {StepFolder(overall_step')} ELSE saves
                 /\ step' = step + 1
                 /\ pc' = "batch" /\ exc' = exc
       ELSE /\ step' = step + 1
            /\ pc' = "batch" /\ exc' = exc
            /\ saves' = saves
    /\ UNCHANGED << input_vars, checkpointing_steps, num_epochs,
                    gradient_accumulation_steps, pidx, model_vars, back_hooks, epoch,
                    resume_step, trace_vars, saved >>

\* utils.prehook_utils.remove_all_hooks(model): the model carries no hooks afterwards
remove_all_hooks(h) == [j \in Params |-> <<>>]

\* mutant: the model is saved without the call of remove_all_hooks
RemoveHooksSkipped ==
    /\ pc = "remove"
    /\ pc' = "save"
    /\ UNCHANGED << input_vars, exc, checkpointing_steps, num_epochs,
                    gradient_accumulation_steps, pidx, model_vars, back_hooks,
                    loop_vars, resume_step, trace_vars, saves, saved >>

\* lines 292-293
RemoveHooks ==
    /\ pc = "remove"
    /\ hooks' = remove_all_hooks(hooks)
    /\ pc' = "save"
    /\ UNCHANGED << input_vars, exc, checkpointing_steps, num_epochs,
                    gradient_accumulation_steps, pidx, param, grad, back_hooks, exp_avg,
                    loop_vars, resume_step, trace_vars, saves, saved >>

\* config.get('save_model'): key absent (None), False or True
SaveModelValues == {"absent", "False", "True"}
Truthy(sm) == sm = "True"

\* lines 295-296: not config.get('save_model') or config['save_model']
SaveModel ==
    /\ pc = "save"
    /\ \E sm \in SaveModelValues :
          saved' = IF (~Truthy(sm)) \/ sm = "True"
                   THEN << [weights |-> param, hooks |-> hooks] >>
                   ELSE saved
    /\ pc' = "done"
    /\ UNCHANGED << input_vars, exc, checkpointing_steps, num_epochs,
                    gradient_accumulation_steps, pidx, model_vars, back_hooks,
                    loop_vars, resume_step, trace_vars, saves >>

\* an external collaborator fails: accelerator.prepare (184-207), load_state (215),
\* the forward or backward pass (250-259).  training_function has no handler,
\* so the exception leaves it.
Interrupt ==
    /\ \/ pc = "install" /\ pidx > NParams
       \/ pc \in {"resume", "forward"}
    /\ Raise("RuntimeError")
    /\ UNCHANGED << input_vars, checkpointing_steps, num_epochs,
                    gradient_accumulation_steps, pidx, model_vars, back_hooks,
                    loop_vars, resume_step, trace_vars, saves, saved >>

Next ==
    \/ Validate
    \/ Setup
    \/ InstallHook
    \/ Prepare
    \/ Resume
    \/ EpochHead
    \/ BatchHead
    \/ ForwardBackward
    \/ OptimizerStep
    \/ StepCheckpoint
    \/ RemoveHooks
    \/ SaveModel
    \/ Interrupt

Spec == Init /\ [][Next]_vars

\* ------------------------------------------------------------------ claims
\* the parameters the claims call eligible
EligibleName(name) == Contains(name, "weight") /\ check_whitelist(name)
HooksInstalled == pc = "install" /\ pidx > NParams
ModelLoaded == \A j \in Params : param[j] # <<>>
NoHooks == \A j \in Params : hooks[j] = <<>>

\* C1: every element of an eligible parameter that is exactly zero when the hooks
\* are registered is still exactly zero in every later state of the run, through
\* backward passes, accumulation, optimizer steps and the final save.
C1_SparsityPreserved ==
    \A j \in Params :
        (EligibleName(ParamNames[j]) /\ param[j] # <<>>) =>
            \A i \in 1..Len(param[j]) :
                config.model[j][i] = Zero =>
                    /\ param[j][i] = Zero
                    /\ saved # <<>> => saved[1].weights[j][i] = Zero

\* Short of a NaN written by an update that the gradient scaler did not skip,
\* the pruned positions do stay zero.
SparsityUpToNaN ==
    \A j \in Params :
        (EligibleName(ParamNames[j]) /\ param[j] # <<>>) =>
            \A i \in 1..Len(param[j]) :
                config.model[j][i] = Zero =>
                    \/ param[j][i] = Zero
                    \/ param[j][i] = NaN /\ mixed_precision = "no"

\* C2: the mask captured for a parameter has the parameter's shape and is 0
\* exactly where the parameter is zero and 1 elsewhere; an all-zero parameter
\* gives an all-zero mask and [0, 2.5, 0, -1.0] gives [0, 1, 0, 1].
C2_MaskCorrect ==
    pc = "install" =>
        \A j \in Params : \A k \in 1..Len(hooks[j]) :
            LET P == param[j]
                M == ToFloat(hooks[j][k])
            IN  /\ Len(M) = Len(P)
                /\ \A i \in 1..Len(P) :
                       /\ M[i] = Zero <=> P[i] = Zero
                       /\ M[i] # Zero => M[i] = One
                /\ P = FT(<<0, 0, 0, 0>>) => M = FT(<<0, 0, 0, 0>>)
                /\ P = FT(<<0, 5, 0, -2>>) => M = FT(<<0, 1, 0, 1>>)

C2_Witness ==
    /\ HooksInstalled
    /\ hooks[1] # <<>>
    /\ param[1] = FT(<<0, 5, 0, -2>>)
    /\ \E i \in 1..Len(hooks[NParams][1]) : hooks[NParams][1][i] /\ param[NParams][i] # Zero

\* C3: the gradient a hook returns is 0 wherever its mask is 0 and the incoming
\* gradient wherever its mask is 1, for every incoming gradient.
C3_GradientSuppressed ==
    \A j \in Params :
        (hooks[j] # <<>> /\ hook_out[j] # <<>>) =>
            \A i \in 1..Len(hook_out[j]) :
                /\ ~hooks[j][1][i] => hook_out[j][i] = Zero
                /\ hooks[j][1][i] => hook_out[j][i] = hook_in[j][i]

C5_CleanupOnInterrupt == pc = "raised" => NoHooks

\* C6: after installation every parameter was visited once, exactly the
\* eligible parameters carry exactly one hook, and the handle of every
\* registered hook is held in the registry.
C6_InstallCoversEligibleAndTracksHandles ==
    HooksInstalled =>
        /\ pidx = NParams + 1
        /\ \A j \in Params :
               Len(hooks[j]) = IF EligibleName(ParamNames[j]) THEN 1 ELSE 0
        /\ back_hooks = { <<j, 1>> : j \in { n \in Params : hooks[n] # <<>> } }

\* the non-zero pattern of a tensor, as 0/1 floats
Pattern(P) == [i \in 1..Len(P) |-> IF P[i] = Zero THEN Zero ELSE One]

\* C7: in every backward pass a parameter's hook multiplies by the non-zero
\* pattern this parameter had at registration: not by the pattern of the live
\* weights, and not by the mask of another parameter.
C7_MaskFrozenAndPrivate ==
    \A j \in Params :
        (hooks[j] # <<>> /\ hook_out[j] # <<>>) =>
            hook_out[j] = TMul(hook_in[j], Pattern(config.model[j]))

\* a weight that was non-zero at registration is zero now and its gradient
\* passed the hook unmasked; the other hooked parameter has another mask
C7_Witness ==
    /\ pc = "optimizer"
    /\ hooks[1] # <<>> /\ hooks[NParams] # <<>>
    /\ hooks[1] # hooks[NParams]
    /\ \E i \in 1..Len(param[1]) :
          /\ config.model[1][i] # Zero
          /\ param[1][i] = Zero
          /\ hook_in[1][i] # Zero
          /\ hook_out[1][i] = hook_in[1][i]

DigitChars == {"0", "1", "2", "3", "4", "5", "6", "7", "8", "9"}
NumberOrEpoch(a) ==
    \/ a.chars = <<"e", "p", "o", "c", "h">>
    \/ a.chars # <<>> /\ \A i \in 1..Len(a.chars) : a.chars[i] \in DigitChars

\* C8: a --checkpointing_steps string that is neither "epoch" nor a number ends
\* the run with a ValueError before the model is loaded, a hook registered, a
\* step trained or anything saved; "epoch" and numbers pass the validation;
\* without the argument nothing is ever checkpointed.
C8_CheckpointingStepsValidated ==
    LET a == args.checkpointing_steps IN
    /\ (a.kind = "str" /\ ~NumberOrEpoch(a) /\ pc # "validate") =>
           /\ pc = "raised" /\ exc = "ValueError"
           /\ \A j \in Params : param[j] = <<>>
           /\ NoHooks
           /\ overall_step = 0 /\ saves = {} /\ saved = <<>>
    /\ (a.kind = "str" /\ NumberOrEpoch(a) /\ pc = "raised") => ModelLoaded
    /\ (a.kind = "none" /\ pc # "validate") =>
           /\ checkpointing_steps.kind = "none"
           /\ saves = {}
           /\ pc = "raised" => ModelLoaded

C8_Witness ==
    /\ pc = "raised"
    /\ exc = "ValueError"
    /\ args.checkpointing_steps = Str(<<"x", "2">>)

\* C9: with a number n the state is saved exactly at the steps whose running
\* count is a multiple of n; with "epoch" it is saved at the end of each epoch.
C9_CheckpointSchedule ==
    /\ (checkpointing_steps.kind = "int" /\ checkpointing_steps.n > 0) =>
           saves = { [kind |-> "step", n |-> s] :
                        s \in { t \in 1..overall_step : t % checkpointing_steps.n = 0 } }
    /\ checkpointing_steps.kind = "epoch" =>
           \A e \in 0..(epoch - 1) : [kind |-> "epoch", n |-> e] \in saves

\* C10: in the first epoch after resuming from a step checkpoint no forward or
\* backward pass is made for a batch whose index is below resume_step.
C10_ResumeSkipsTrainedSteps ==
    (pc \in {"forward", "optimizer", "checkpoint"}
        /\ args.resume_from_checkpoint.kind # "none" /\ epoch = 0) =>
            ~(resume_step # <<>> /\ step < resume_step[1])

=============================================================================
